---- MODULE Spec2Model ----
(***************************************************************************)
(* Model of the notebook 1-COVID-19-Loading-Data.ipynb: the workspace      *)
(* preparation cell and the eight fetch cells (ten fetch steps), executed   *)
(* by one kernel, statement by statement, over a filesystem and a network. *)
(*                                                                         *)
(* A path is the sequence of its components, relative to the notebook's    *)
(* working directory.  The filesystem is a function from the paths that    *)
(* exist to their entries.  File contents and network bodies are           *)
(* sequences of strings.                                                   *)
(***************************************************************************)
EXTENDS Integers, Sequences, FiniteSets, TLC

VARIABLES
    clock,            \* the date datetime.today() returns
    remoteVer,        \* which revision of the remote resources is published
    faults,           \* whether the network and the filesystem may fail
    fs,               \* the filesystem: existing path -> entry
    env,              \* the kernel's string variables: defined name -> value
    download_folder,  \* the kernel's Path variable (<<>> while undefined)
    sub_folder,       \* the kernel's Path variable (<<>> while undefined)
    zip,              \* the open archive: member name -> content
    df,               \* the dataset just parsed (NoData when none)
    status,           \* "idle", "running" or "aborted"
    step,             \* the step being executed (0 is workspace preparation)
    stage,            \* the statement the kernel is at inside the step
    error,            \* the exception that surfaced ("none" when none)
    ran,              \* the cells started so far
    requested,        \* per fetch step, the URLs it has requested
    written,          \* history: path -> the dataset last handed to to_pickle
    prior,            \* history: what occupied the workspace path at Init
    prepRuns,         \* history: completed runs of workspace preparation
    geoOrder,         \* history: the boundary cells (6, 7) in the order started
    loaded,           \* the last reload: the dataset read and the one last written
    answered,         \* history: per fetch step, how its request was answered
    met               \* history: the cells whose reads were defined by the right cells

vars == <<clock, remoteVer, faults, fs, env, download_folder, sub_folder, zip,
          df, status, step, stage, error, ran, requested, written, prior,
          prepRuns, geoOrder, loaded, answered, met>>

-----------------------------------------------------------------------------
(* Bounds of the model.                                                    *)

\* Revisions of the remote data a run may meet.
MaxVer == 2
\* How many times workspace preparation is run in succession.
MaxPrepRuns == 2

-----------------------------------------------------------------------------
(* Paths and the filesystem.                                               *)

\* pathlib's  parent / name
Join(parent, name) == Append(parent, name)

IsPrefix(p, q) == Len(p) <= Len(q) /\ SubSeq(q, 1, Len(p)) = p

DirEntry == [kind |-> "dir", data |-> <<>>]
FileEntry(data) == [kind |-> "file", data |-> data]
\* A FIFO, socket, device node or dangling symbolic link.
SpecialEntry == [kind |-> "special", data |-> <<>>]

exists(f, p) == p \in DOMAIN f
is_dir(f, p) == p \in DOMAIN f /\ f[p].kind = "dir"
is_file(f, p) == p \in DOMAIN f /\ f[p].kind = "file"

\* shutil.rmtree(p): p and everything beneath it.
rmtree(f, p) == [q \in {r \in DOMAIN f : ~IsPrefix(p, r)} |-> f[q]]
\* Path.unlink()
unlink(f, p) == [q \in DOMAIN f \ {p} |-> f[q]]
\* Path.mkdir()
mkdir(f, p) == [q \in DOMAIN f \cup {p} |-> IF q = p THEN DirEntry ELSE f[q]]
\* open(p, "wb"), write, close: creates the file or replaces its content.
write_file(f, p, data) ==
    [q \in DOMAIN f \cup {p} |-> IF q = p THEN FileEntry(data) ELSE f[q]]

\* The names directly under directory p.
Children(f, p) == {q[Len(q)] : q \in {r \in DOMAIN f : Len(r) = Len(p) + 1 /\ IsPrefix(p, r)}}

-----------------------------------------------------------------------------
(* The dated workspace.                                                    *)

Dates == {"2020-12-20", "2020-12-21"}

\* datetime.today().strftime('%Y-%m-%d') + '-COVID-19-Data'
FolderName(date) == date \o "-COVID-19-Data"
DownloadFolder(date) == <<FolderName(date)>>

-----------------------------------------------------------------------------
(* The notebook's cells and fetch steps.                                   *)

\* Cell 0 prepares the workspace; cells 1..8 are the fetch cells, in
\* notebook order.  Steps 1..7 are tabular, steps 8..10 are archive steps.
Cells == 0..8
FetchCells == 1..8
Steps == 1..10
TabularSteps == 1..7
ArchiveSteps == 8..10

CellOf(s) ==
    CASE s = 0 -> 0
      [] s = 1 -> 1
      [] s = 2 -> 2
      [] s \in {3, 4} -> 3
      [] s \in {5, 6} -> 4
      [] s = 7 -> 5
      [] s = 8 -> 6
      [] s = 9 -> 7
      [] s = 10 -> 8

StepsOf(c) == {s \in Steps : CellOf(s) = c}
FirstStep(c) == CHOOSE s \in StepsOf(c) : \A t \in StepsOf(c) : s <= t
LastStep(c) == CHOOSE s \in StepsOf(c) : \A t \in StepsOf(c) : t <= s

\* The state cell without its own base URL, left to the cell above it.
StateCellAssignsPathOnly == ("zip_file_path" :> "STATE/tl_2017_us_state.zip")

\* The string assignments at the top of the US state boundaries cell.
StateCellAssigns ==
    ("geodata_url" :> "https://www2.census.gov/geo/tiger/TIGER2017/") @@
    ("zip_file_path" :> "STATE/tl_2017_us_state.zip")

\* The string assignments at the top of each fetch cell.
CellAssigns(c) ==
    CASE c = 1 ->
           ("CTP_all_states" :> "https://api.covidtracking.com/v1/states/daily.csv")
      [] c = 2 ->
           ("CAN_Key" :> "<your key here>") @@
           ("CAN_File" :> "states.timeseries.csv")
      [] c = 3 ->
           ("JHU_Github_URL" :> "https://raw.githubusercontent.com/CSSEGISandData/") @@
           ("JHU_Github_Path" :> "COVID-19/master/csse_covid_19_data/csse_covid_19_time_series/") @@
           ("JHU_File_US_confirmed" :> "time_series_covid19_confirmed_US.csv") @@
           ("JHU_File_US_deaths" :> "time_series_covid19_deaths_US.csv")
      [] c = 4 ->
           ("JHU_File_Global_confirmed" :> "time_series_covid19_confirmed_global.csv") @@
           ("JHU_File_Global_deaths" :> "time_series_covid19_deaths_global.csv")
      [] c = 5 ->
           ("JHU_Github_Path2" :> "COVID-19_Unified-Dataset/master/") @@
           ("JHU_geo_data" :> "COVID-19_LUT.csv")
      [] c = 6 ->
           ("geodata_url" :> "https://www.naturalearthdata.com/http//www.naturalearthdata.com/") @@
           ("zip_file_path" :> "download/10m/cultural/ne_10m_admin_0_countries.zip")
      [] c = 7 -> StateCellAssigns
      [] c = 8 ->
           ("zip_file_path" :> "COUNTY/tl_2017_us_county.zip")

\* Python assignment: bind or rebind each name.
Assigned(e, a) ==
    [n \in DOMAIN e \cup DOMAIN a |-> IF n \in DOMAIN a THEN a[n] ELSE e[n]]

Lit(text) == [var |-> FALSE, text |-> text]
Var(name) == [var |-> TRUE, text |-> name]

\* The URL expression of each step's request: literals and variable reads.
URLExpr(s) ==
    CASE s = 1 -> <<Var("CTP_all_states")>>
      [] s = 2 -> <<Lit("https://api.covidactnow.org/v2/"), Var("CAN_File"),
                    Lit("?apiKey="), Var("CAN_Key")>>
      [] s = 3 -> <<Var("JHU_Github_URL"), Var("JHU_Github_Path"), Var("JHU_File_US_confirmed")>>
      [] s = 4 -> <<Var("JHU_Github_URL"), Var("JHU_Github_Path"), Var("JHU_File_US_deaths")>>
      [] s = 5 -> <<Var("JHU_Github_URL"), Var("JHU_Github_Path"), Var("JHU_File_Global_confirmed")>>
      [] s = 6 -> <<Var("JHU_Github_URL"), Var("JHU_Github_Path"), Var("JHU_File_Global_deaths")>>
      [] s = 7 -> <<Var("JHU_Github_URL"), Var("JHU_Github_Path2"), Var("JHU_geo_data")>>
      [] s \in ArchiveSteps -> <<Var("geodata_url"), Var("zip_file_path")>>

\* The names an expression reads that the kernel has not defined.
Undefined(expr, e) ==
    {expr[i].text : i \in {j \in 1..Len(expr) : expr[j].var /\ expr[j].text \notin DOMAIN e}}

RECURSIVE Eval(_, _)
\* String concatenation of the parts, variables read from e.
Eval(expr, e) ==
    IF expr = <<>> THEN ""
    ELSE (IF Head(expr).var THEN e[Head(expr).text] ELSE Head(expr).text)
         \o Eval(Tail(expr), e)

\* The cache file each step writes.
CacheName(s) ==
    CASE s = 1 -> "covid_tracking_project.pkl"
      [] s = 2 -> "covid_act_now.pkl"
      [] s = 3 -> "jhu_confirmed_us.pkl"
      [] s = 4 -> "jhu_deaths_us.pkl"
      [] s = 5 -> "jhu_confirmed_global.pkl"
      [] s = 6 -> "jhu_deaths_global.pkl"
      [] s = 7 -> "jhu_geo_data.pkl"
      [] s = 8 -> "ne_10m_admin_0_countries.pkl"
      [] s = 9 -> "tl_2017_us_state.pkl"
      [] s = 10 -> "tl_2017_us_county.pkl"

\* The scratch subdirectory of each archive step.
ScratchName(s) ==
    CASE s = 8 -> "shapes_global"
      [] s = 9 -> "shapes_state"
      [] s = 10 -> "shapes_county"

\* The scratch subdirectory placed in the working directory itself.
SubFolderCwd(folder, s) == <<ScratchName(s)>>

\* sub_folder = download_folder / 'shapes_...'
SubFolder(folder, s) == Join(folder, ScratchName(s))

\* The base name of the geometry file-set each archive step reads.
ShapeBase(s) ==
    CASE s = 8 -> "ne_10m_admin_0_countries"
      [] s = 9 -> "tl_2017_us_state"
      [] s = 10 -> "tl_2017_us_county"
ShpName(s) == ShapeBase(s) \o ".shp"
DbfName(s) == ShapeBase(s) \o ".dbf"

CacheNames == {CacheName(s) : s \in Steps}
ScratchNames == {ScratchName(s) : s \in ArchiveSteps}

-----------------------------------------------------------------------------
(* Datasets, the parsers and the cache format.                             *)

\* A dataset: its class, column names in order, one dtype per column, and
\* its rows (each a sequence of cell values, "NaN" the missing value).
NoData == [kind |-> "none", columns |-> <<>>, dtypes |-> <<>>, values |-> <<>>]

NoZip == [n \in {} |-> <<>>]

Digits == {"0", "1", "2", "3", "4", "5", "6", "7", "8", "9"}

\* The parser's type inference for one column of cells.
InferDtype(cells) ==
    IF cells = <<>> THEN "object"
    ELSE IF \A i \in 1..Len(cells) : cells[i] \in Digits THEN "int64"
    ELSE IF \A i \in 1..Len(cells) : cells[i] \in Digits \cup {""} THEN "float64"
    ELSE "object"

\* pd.read_csv fails on a row with more fields than the header.
CsvMalformed(body) ==
    body = <<>> \/ \E i \in 2..Len(body) : Len(body[i]) > Len(body[1])

\* The cell of row r in column j; short rows and empty cells are missing.
CsvCell(r, j) == IF j <= Len(r) THEN r[j] ELSE ""

\* pd.read_csv on a well-formed body: header, inferred dtypes, rows.
read_csv(body) ==
    LET header == body[1]
        rows == Tail(body)
        col(j) == [i \in 1..Len(rows) |-> CsvCell(rows[i], j)]
    IN [kind |-> "DataFrame",
        columns |-> header,
        dtypes |-> [j \in 1..Len(header) |-> InferDtype(col(j))],
        values |-> [i \in 1..Len(rows) |->
                      [j \in 1..Len(header) |->
                         IF CsvCell(rows[i], j) = "" THEN "NaN" ELSE CsvCell(rows[i], j)]]]

\* The sibling of the .shp file that holds the attribute table.
DbfOf(p) ==
    LET name == p[Len(p)]
        base == CHOOSE b \in {ShapeBase(s) : s \in ArchiveSteps} : b \o ".shp" = name
    IN Join(SubSeq(p, 1, Len(p) - 1), base \o ".dbf")

\* gpd.read_file on an existing .shp file: one row per geometry, with the
\* attribute column of the .dbf beside it when that exists.
read_file(f, p) ==
    LET shp == f[p].data
        hasDbf == is_file(f, DbfOf(p)) /\ Len(f[DbfOf(p)].data) = Len(shp) + 1
        dbf == f[DbfOf(p)].data
    IN [kind |-> "GeoDataFrame",
        columns |-> IF hasDbf THEN <<dbf[1], "geometry">> ELSE <<"geometry">>,
        dtypes |-> IF hasDbf THEN <<"object", "geometry">> ELSE <<"geometry">>,
        values |-> [i \in 1..Len(shp) |->
                      IF hasDbf THEN <<dbf[i + 1], shp[i]>> ELSE <<shp[i]>>]]

RECURSIVE Flatten(_)
Flatten(rows) == IF rows = <<>> THEN <<>> ELSE Head(rows) \o Flatten(Tail(rows))

\* The byte stream of a pickled dataset: class, column count, column names,
\* dtypes, row count, the cells row by row, and the STOP opcode.
Pickle(d) ==
    <<"PROTO", d.kind, ToString(Len(d.columns))>> \o d.columns \o d.dtypes
        \o <<ToString(Len(d.values))>> \o Flatten(d.values) \o <<"STOP">>

\* The number a decimal field of the stream holds (-1 when it holds none).
ParseNat(text, most) ==
    IF \E n \in 0..most : ToString(n) = text
    THEN CHOOSE n \in 0..most : ToString(n) = text
    ELSE -1

\* Whether a byte stream is a complete pickle.
Unpicklable(b) ==
    /\ Len(b) >= 5
    /\ b[1] = "PROTO"
    /\ b[Len(b)] = "STOP"
    /\ LET nc == ParseNat(b[3], Len(b))
       IN /\ nc >= 0
          /\ Len(b) >= 5 + 2 * nc
          /\ LET nr == ParseNat(b[4 + 2 * nc], Len(b))
             IN nr >= 0 /\ Len(b) = 5 + 2 * nc + nr * nc

\* The dataset a complete pickle holds.
Unpickle(b) ==
    LET nc == ParseNat(b[3], Len(b))
        nr == ParseNat(b[4 + 2 * nc], Len(b))
    IN [kind |-> b[2],
        columns |-> SubSeq(b, 4, 3 + nc),
        dtypes |-> SubSeq(b, 4 + nc, 3 + 2 * nc),
        values |-> [i \in 1..nr |->
                      SubSeq(b, 5 + 2 * nc + (i - 1) * nc, 4 + 2 * nc + i * nc)]]

\* A writer in a text format: the class and the dtypes are not kept.
to_text(f, p, d) ==
    write_file(f, p, Pickle([kind |-> "DataFrame",
                             columns |-> d.columns,
                             dtypes |-> [j \in 1..Len(d.dtypes) |-> "object"],
                             values |-> d.values]))

\* df.to_pickle(p): the whole pickle replaces whatever p held.
to_pickle(f, p, d) == write_file(f, p, Pickle(d))

\* A cache write cut short (no space left): the file is created and holds
\* none or only the first part of the stream.
Truncations(b) == {<<>>, SubSeq(b, 1, Len(b) \div 2)}

\* pd.read_pickle(p) on a file holding a complete pickle.
read_pickle(f, p) == Unpickle(f[p].data)

-----------------------------------------------------------------------------
(* The remote services.                                                    *)

\* The resource each source publishes, by the step that fetches it.
PublishedURL(s) ==
    CASE s = 1 -> "https://api.covidtracking.com/v1/states/daily.csv"
      [] s = 2 -> "https://api.covidactnow.org/v2/states.timeseries.csv?apiKey=<your key here>"
      [] s = 3 -> "https://raw.githubusercontent.com/CSSEGISandData/COVID-19/master/csse_covid_19_data/csse_covid_19_time_series/time_series_covid19_confirmed_US.csv"
      [] s = 4 -> "https://raw.githubusercontent.com/CSSEGISandData/COVID-19/master/csse_covid_19_data/csse_covid_19_time_series/time_series_covid19_deaths_US.csv"
      [] s = 5 -> "https://raw.githubusercontent.com/CSSEGISandData/COVID-19/master/csse_covid_19_data/csse_covid_19_time_series/time_series_covid19_confirmed_global.csv"
      [] s = 6 -> "https://raw.githubusercontent.com/CSSEGISandData/COVID-19/master/csse_covid_19_data/csse_covid_19_time_series/time_series_covid19_deaths_global.csv"
      [] s = 7 -> "https://raw.githubusercontent.com/CSSEGISandData/COVID-19_Unified-Dataset/master/COVID-19_LUT.csv"
      [] s = 8 -> "https://www.naturalearthdata.com/http//www.naturalearthdata.com/download/10m/cultural/ne_10m_admin_0_countries.zip"
      [] s = 9 -> "https://www2.census.gov/geo/tiger/TIGER2017/STATE/tl_2017_us_state.zip"
      [] s = 10 -> "https://www2.census.gov/geo/tiger/TIGER2017/COUNTY/tl_2017_us_county.zip"

Published == {PublishedURL(s) : s \in Steps}
SourceOf(url) == CHOOSE s \in Steps : PublishedURL(s) = url

\* The CSV a tabular source serves in revision ver: a header and two rows,
\* the second row with missing cells.
CsvBody(url, ver) ==
    << <<"UID", "Combined_Key", "count">>,
       <<ToString(SourceOf(url)), url, ToString(ver)>>,
       <<ToString(ver), "">> >>

\* A body whose second row has more fields than the header.
CsvBroken(url, ver) ==
    << <<"UID", "Combined_Key">>,
       <<ToString(SourceOf(url)), url, ToString(ver)>> >>

\* The archive a boundary source serves in revision ver: the geometry file
\* and its attribute table at the top level of the archive.
ZipBody(url, ver) ==
    LET s == SourceOf(url)
    IN (ShpName(s) :> <<"POLYGON " \o ToString(s), "MULTIPOLYGON " \o ToString(ver)>>) @@
       (DbfName(s) :> <<"NAME", url, ToString(ver)>>)

\* An archive without the geometry file at the expected relative path.
ZipLackingShp(url, ver) ==
    LET s == SourceOf(url)
    IN (DbfName(s) :> <<"NAME", url, ToString(ver)>>)

\* The dataset a completed step holds for revision ver of its source.
SourceData(s, ver) ==
    IF s \in TabularSteps
    THEN read_csv(CsvBody(PublishedURL(s), ver))
    ELSE LET folder == <<"x">>
             f == [p \in {Join(folder, n) : n \in DOMAIN ZipBody(PublishedURL(s), ver)}
                     |-> FileEntry(ZipBody(PublishedURL(s), ver)[p[2]])]
         IN read_file(f, Join(folder, ShpName(s)))

\* What a tabular request can return: a transport error, an HTTP error
\* status, a malformed body, or the published CSV.  An unpublished URL is
\* answered 404.
CsvOutcomes(url) ==
    IF url \notin Published THEN {"HTTPError"}
    ELSE IF faults THEN {"URLError", "HTTPError", "ParserError", "ok"}
    ELSE {"ok"}

\* What an archive request can return.
ZipOutcomes(url) ==
    IF url \notin Published THEN {"HTTPError"}
    ELSE IF faults THEN {"URLError", "HTTPError", "BadZipFile", "lacking", "ok"}
    ELSE {"ok"}

\* Whether a filesystem call may be denied (permissions, no space left).
\* A denied rmtree, unlink, mkdir or extractall leaves the filesystem as it
\* was; a cache write has the further outcome of Truncations.
FsOutcomes == IF faults THEN {"OSError", "ok"} ELSE {"ok"}

-----------------------------------------------------------------------------
(* The states a run can start in.                                          *)

\* What may occupy the workspace path before a run.
Priors == {"absent", "file", "empty_dir", "cache_dir", "scratch_dir", "special"}

OldPickle == FileEntry(<<"PROTO", "old">>)

\* A workspace as an earlier run left it: cache files, and for
\* "scratch_dir" also a leftover scratch subdirectory and a stray file.
Populated(folder, names, withScratch) ==
    LET caches == {Join(folder, n) : n \in names}
        scratch == IF withScratch
                   THEN {Join(folder, "shapes_state"),
                         Join(Join(folder, "shapes_state"), "tl_2017_us_state.shp"),
                         Join(folder, "notes.txt")}
                   ELSE {}
    IN [p \in {folder} \cup caches \cup scratch |->
          IF p = folder \/ p = Join(folder, "shapes_state") THEN DirEntry
          ELSE IF p \in caches THEN OldPickle
          ELSE FileEntry(<<"leftover">>)]

Occupant(kind, folder) ==
    CASE kind = "absent" -> NoZip
      [] kind = "file" -> (folder :> FileEntry(<<"a file">>))
      [] kind = "empty_dir" -> (folder :> DirEntry)
      [] kind = "cache_dir" -> Populated(folder, CacheNames, FALSE)
      [] kind = "scratch_dir" ->
           Populated(folder, {CacheName(1), CacheName(9)}, TRUE)
      [] kind = "special" -> (folder :> SpecialEntry)

\* Everything else in the working directory: the dated directory of a run
\* on another date, and entries of the user's that share names with the
\* notebook's cache files and scratch subdirectories.
Elsewhere(date) ==
    LET old == CHOOSE d \in Dates : d # date
    IN Populated(DownloadFolder(old), CacheNames, TRUE) @@
       (<<"shapes_global">> :> DirEntry) @@
       (<<"shapes_global", "ne_10m_admin_0_countries.shp">> :> FileEntry(<<"mine">>)) @@
       (<<"covid_tracking_project.pkl">> :> FileEntry(<<"mine">>))

InitFs(kind, date) == Occupant(kind, DownloadFolder(date)) @@ Elsewhere(date)

\* A workspace that preparation has just completed on.
PreparedFs(date) == Occupant("empty_dir", DownloadFolder(date)) @@ Elsewhere(date)

InitKernel ==
    /\ env = NoZip
    /\ sub_folder = <<>>
    /\ zip = NoZip
    /\ df = NoData
    /\ status = "idle"
    /\ step = 0
    /\ stage = "none"
    /\ error = "none"
    /\ requested = [s \in Steps |-> <<>>]
    /\ written = NoZip
    /\ geoOrder = <<>>
    /\ loaded = [df |-> NoData, latest |-> NoData]
    /\ answered = [s \in Steps |-> "none"]

\* Before "Run All": nothing has run; the workspace path holds anything.
Init ==
    /\ clock \in Dates
    /\ remoteVer \in 1..MaxVer
    /\ faults = TRUE
    /\ prior \in Priors
    /\ fs = InitFs(prior, clock)
    /\ download_folder = <<>>
    /\ ran = {}
    /\ met = {}
    /\ prepRuns = 0
    /\ InitKernel

-----------------------------------------------------------------------------
(* The kernel.                                                             *)

\* An exception surfaces: the cell stops at the statement that raised it.
\* The failed statement is run again (a retry loop around the fetch).
Retried(exc, stg) ==
    IF stg = "await" /\ exc \in {"URLError", "HTTPError", "ParserError"}
    THEN [status |-> "running", stage |-> "request", error |-> "none"]
    ELSE [status |-> "aborted", stage |-> stg, error |-> exc]

\* The failing statement is run again until it succeeds (an unbounded
\* retry loop around every statement).
RetriedInPlace(exc, stg) == [status |-> "running", stage |-> stg, error |-> exc]

\* The exception is recorded and the run goes on with the next cell (the
\* notebook executed with errors allowed).
AllowErrors(exc, stg) == [status |-> "idle", stage |-> stg, error |-> exc]

\* No cell catches an exception: it surfaces at the statement that raised
\* it and the cell stops there.
Unhandled(exc, stg) == [status |-> "aborted", stage |-> stg, error |-> exc]

Raise(exc) ==
    /\ status' = Unhandled(exc, stage).status
    /\ stage' = Unhandled(exc, stage).stage
    /\ error' = Unhandled(exc, stage).error
    /\ UNCHANGED step

\* Whether the variables cell c reads without assigning them hold what the
\* notebook's order gives them, given the cells started before it: cells 4
\* and 5 read JHU_Github_URL (and JHU_Github_Path), which cell 3 assigns;
\* cell 8 reads geodata_url, which cells 6 and 7 both assign.
DepsMet(c, before, geo) ==
    CASE c \in {4, 5} -> 3 \in before
      [] c = 8 -> geo # <<>> /\ geo[Len(geo)] = 7
      [] OTHER -> TRUE

StartCell(c) ==
    /\ status' = "running"
    /\ step' = IF c = 0 THEN 0 ELSE FirstStep(c)
    /\ stage' = "assign"
    /\ error' = "none"
    /\ ran' = ran \cup {c}
    /\ geoOrder' = IF c \in {6, 7} THEN Append(geoOrder, c) ELSE geoOrder
    /\ met' = IF DepsMet(c, ran, geoOrder) THEN met \cup {c} ELSE met
    /\ UNCHANGED <<clock, remoteVer, faults, fs, env, download_folder, sub_folder,
                   zip, df, requested, written, prior, prepRuns, loaded, answered>>

\* "Run All": the next cell in notebook order starts when the one before
\* it has ended without an exception.
RunAll ==
    /\ status = "idle"
    /\ \E c \in Cells : c \notin ran /\ ran = 0..(c - 1) /\ StartCell(c)

\* The step has ended: on to the next step of the cell, or the cell ends.
EndStep ==
    IF step = LastStep(CellOf(step))
    THEN /\ status' = "idle"
         /\ stage' = "end"
         /\ UNCHANGED step
    ELSE /\ step' = step + 1
         /\ stage' = "request"
         /\ UNCHANGED status

At(stg) == status = "running" /\ stage = stg

-----------------------------------------------------------------------------
(* Cell 0: workspace preparation.                                          *)

\* download_folder = Path(datetime.today().strftime(...) + '-COVID-19-Data')
PrepAssign ==
    /\ At("assign") /\ step = 0
    /\ download_folder' = DownloadFolder(clock)
    /\ stage' = "remove"
    /\ UNCHANGED <<clock, remoteVer, faults, fs, env, sub_folder, zip, df, status,
                   step, error, ran, requested, written, prior, prepRuns,
                   geoOrder, loaded, answered, met>>

\* Removal without its elif branch.
RemovalDirOnly(f, p) == IF is_dir(f, p) THEN "rmtree" ELSE "nothing"

\* The branch the if/elif takes for what is at p.
Removal(f, p) ==
    IF is_dir(f, p) THEN "rmtree"
    ELSE IF is_file(f, p) THEN "unlink"
    ELSE "nothing"

\* if is_dir(): shutil.rmtree(...)  elif is_file(): unlink()
PrepRemove ==
    /\ At("remove") /\ step = 0
    /\ LET how == Removal(fs, download_folder)
       IN \E o \in (IF how = "nothing" THEN {"ok"} ELSE FsOutcomes) :
            IF o = "OSError"
            THEN Raise("OSError") /\ UNCHANGED fs
            ELSE /\ fs' = CASE how = "rmtree" -> rmtree(fs, download_folder)
                            [] how = "unlink" -> unlink(fs, download_folder)
                            [] how = "nothing" -> fs
                 /\ stage' = "mkdir"
                 /\ UNCHANGED <<status, step, error>>
    /\ UNCHANGED <<clock, remoteVer, faults, env, download_folder, sub_folder, zip,
                   df, ran, requested, written, prior, prepRuns, geoOrder, loaded, answered, met>>

\* download_folder.mkdir(): FileExistsError when the path is still taken.
PrepMkdir ==
    /\ At("mkdir") /\ step = 0
    /\ IF exists(fs, download_folder)
       THEN Raise("FileExistsError") /\ UNCHANGED <<fs, prepRuns>>
       ELSE \E o \in FsOutcomes :
              IF o = "OSError"
              THEN Raise("OSError") /\ UNCHANGED <<fs, prepRuns>>
              ELSE /\ fs' = mkdir(fs, download_folder)
                   /\ status' = "idle"
                   /\ stage' = "end"
                   /\ prepRuns' = prepRuns + 1
                   /\ UNCHANGED <<step, error>>
    /\ UNCHANGED <<clock, remoteVer, faults, env, download_folder, sub_folder, zip,
                   df, ran, requested, written, prior, geoOrder, loaded, answered, met>>

Prep == PrepAssign \/ PrepRemove \/ PrepMkdir

-----------------------------------------------------------------------------
(* Cells 1..8: the fetch steps.                                            *)

\* The assignments at the top of a fetch cell; an archive cell also sets
\* sub_folder = download_folder / 'shapes_...'.
Assign ==
    /\ At("assign") /\ step \in Steps
    /\ env' = Assigned(env, CellAssigns(CellOf(step)))
    /\ IF step \in ArchiveSteps
       THEN IF download_folder = <<>>
            THEN Raise("NameError") /\ UNCHANGED sub_folder
            ELSE /\ sub_folder' = SubFolder(download_folder, step)
                 /\ stage' = "request"
                 /\ UNCHANGED <<status, step, error>>
       ELSE /\ stage' = "request"
            /\ UNCHANGED <<sub_folder, status, step, error>>
    /\ UNCHANGED <<clock, remoteVer, faults, fs, download_folder, zip, df, ran,
                   requested, written, prior, prepRuns, geoOrder, loaded, answered, met>>

\* pd.read_csv(url) / urlopen(url): the URL expression is evaluated and the
\* request sent.  (urlcleanup() before urlopen clears urlretrieve's
\* temporary files, of which the notebook makes none.)
Request ==
    /\ At("request") /\ step \in Steps
    /\ IF Undefined(URLExpr(step), env) # {}
       THEN Raise("NameError") /\ UNCHANGED <<requested, df>>
       ELSE /\ requested' = [requested EXCEPT ![step] = Append(@, Eval(URLExpr(step), env))]
            /\ df' = NoData
            /\ stage' = "await"
            /\ UNCHANGED <<status, step, error>>
    /\ UNCHANGED <<clock, remoteVer, faults, fs, env, download_folder, sub_folder,
                   zip, ran, written, prior, prepRuns, geoOrder, loaded, answered, met>>

LastURL(s) == requested[s][Len(requested[s])]

\* What pd.read_csv makes of a response: the exception it raises ("none"
\* when it returns) and the table it returns.
CsvResult(outcome, url, ver) ==
    LET body == IF outcome = "ParserError" THEN CsvBroken(url, ver) ELSE CsvBody(url, ver)
    IN IF outcome \in {"URLError", "HTTPError"}
       THEN [error |-> outcome, df |-> NoData]
       ELSE IF CsvMalformed(body)
       THEN [error |-> "ParserError", df |-> NoData]
       ELSE [error |-> "none", df |-> read_csv(body)]

\* The response to a tabular request arrives and is parsed.
RespondCsv ==
    /\ At("await") /\ step \in TabularSteps
    /\ \E o \in CsvOutcomes(LastURL(step)) :
         LET r == CsvResult(o, LastURL(step), remoteVer)
         IN /\ answered' = [answered EXCEPT ![step] = o]
            /\ IF r.error # "none"
               THEN Raise(r.error) /\ UNCHANGED df
               ELSE /\ df' = r.df
                    /\ stage' = "write"
                    /\ UNCHANGED <<status, step, error>>
    /\ UNCHANGED <<clock, remoteVer, faults, fs, env, download_folder, sub_folder,
                   zip, ran, requested, written, prior, prepRuns, geoOrder, loaded, met>>

\* with urlopen(...) as zip_response: with ZipFile(BytesIO(zip_response.read()))
RespondZip ==
    /\ At("await") /\ step \in ArchiveSteps
    /\ \E o \in ZipOutcomes(LastURL(step)) :
         /\ answered' = [answered EXCEPT ![step] = o]
         /\ IF o \in {"URLError", "HTTPError", "BadZipFile"}
            THEN Raise(o) /\ UNCHANGED zip
            ELSE /\ zip' = IF o = "lacking"
                           THEN ZipLackingShp(LastURL(step), remoteVer)
                           ELSE ZipBody(LastURL(step), remoteVer)
                 /\ stage' = "extract"
                 /\ UNCHANGED <<status, step, error>>
    /\ UNCHANGED <<clock, remoteVer, faults, fs, env, download_folder, sub_folder,
                   df, ran, requested, written, prior, prepRuns, geoOrder, loaded, met>>

\* ZipFile.extractall(dir): dir (and missing parents) are created and every
\* member is written beneath it.
extractall(f, dir, z) ==
    LET dirs == {SubSeq(dir, 1, k) : k \in 1..Len(dir)}
        files == {Join(dir, n) : n \in DOMAIN z}
    IN [p \in DOMAIN f \cup dirs \cup files |->
          IF p \in files THEN FileEntry(z[p[Len(p)]])
          ELSE IF p \in DOMAIN f THEN f[p]
          ELSE DirEntry]

\* zip_file.extractall(sub_folder); both with-blocks then close.
Extract ==
    /\ At("extract") /\ step \in ArchiveSteps
    /\ zip' = NoZip
    /\ \E o \in FsOutcomes :
         IF o = "OSError"
         THEN Raise("OSError") /\ UNCHANGED fs
         ELSE /\ fs' = extractall(fs, sub_folder, zip)
              /\ stage' = "parse"
              /\ UNCHANGED <<status, step, error>>
    /\ UNCHANGED <<clock, remoteVer, faults, env, download_folder, sub_folder, df,
                   ran, requested, written, prior, prepRuns, geoOrder, loaded, answered, met>>

\* A reader that answers a missing file with an empty feature collection.
ShapeResultLenient(f, p) ==
    IF is_file(f, p)
    THEN [error |-> "none", df |-> read_file(f, p)]
    ELSE [error |-> "none",
          df |-> [kind |-> "GeoDataFrame", columns |-> <<"geometry">>,
                  dtypes |-> <<"geometry">>, values |-> <<>>]]

\* What gpd.read_file(p) does: DriverError when there is no file at p.
ShapeResult(f, p) ==
    IF is_file(f, p)
    THEN [error |-> "none", df |-> read_file(f, p)]
    ELSE [error |-> "DriverError", df |-> NoData]

\* gdf = gpd.read_file(sub_folder / '<name>.shp')
Parse ==
    /\ At("parse") /\ step \in ArchiveSteps
    /\ LET r == ShapeResult(fs, Join(sub_folder, ShpName(step)))
       IN IF r.error # "none"
          THEN Raise(r.error) /\ UNCHANGED df
          ELSE /\ df' = r.df
               /\ stage' = "write"
               /\ UNCHANGED <<status, step, error>>
    /\ UNCHANGED <<clock, remoteVer, faults, fs, env, download_folder, sub_folder,
                   zip, ran, requested, written, prior, prepRuns, geoOrder, loaded, answered, met>>

\* The deaths table of the JHU US cell written under the name of the
\* confirmed-cases table above it.
CachePathPasted(folder, s) == Join(folder, IF s = 4 THEN CacheName(3) ELSE CacheName(s))

\* download_folder / '<name>.pkl'
CachePath(folder, s) == Join(folder, CacheName(s))

\* An archive cell whose last line is commented out, as its comment invites
\* ("comment out if you want to keep the downloaded folder contents").
AfterWriteKeep == EndStep

\* What follows a step's cache write: an archive step deletes its scratch
\* subdirectory, a tabular step has ended.
AfterWrite ==
    IF step \in ArchiveSteps
    THEN stage' = "rmtree" /\ UNCHANGED <<status, step>>
    ELSE EndStep

\* df.to_pickle(download_folder / '<name>.pkl').  A denied open leaves the
\* filesystem as it was; a write cut short leaves a truncated file.
Write ==
    /\ At("write") /\ step \in Steps
    /\ LET p == CachePath(download_folder, step)
       IN IF ~is_dir(fs, download_folder)
          THEN Raise("FileNotFoundError") /\ UNCHANGED <<fs, written>>
          ELSE \/ /\ fs' = to_pickle(fs, p, df)
                  /\ written' = (p :> df) @@ written
                  /\ AfterWrite
                  /\ UNCHANGED error
               \/ /\ faults
                  /\ Raise("OSError")
                  /\ UNCHANGED <<fs, written>>
               \/ /\ faults
                  /\ \E t \in Truncations(Pickle(df)) : fs' = write_file(fs, p, t)
                  /\ Raise("OSError")
                  /\ UNCHANGED written
    /\ UNCHANGED <<clock, remoteVer, faults, env, download_folder, sub_folder, zip,
                   df, ran, requested, prior, prepRuns, geoOrder, loaded, answered, met>>

\* shutil.rmtree(sub_folder), the last statement of an archive cell.
Rmtree ==
    /\ At("rmtree") /\ step \in ArchiveSteps
    /\ \E o \in FsOutcomes :
         IF o = "OSError"
         THEN Raise("OSError") /\ UNCHANGED fs
         ELSE /\ fs' = rmtree(fs, sub_folder)
              /\ EndStep
              /\ UNCHANGED error
    /\ UNCHANGED <<clock, remoteVer, faults, env, download_folder, sub_folder, zip,
                   df, ran, requested, written, prior, prepRuns, geoOrder, loaded, answered, met>>

Fetch == Assign \/ Request \/ RespondCsv \/ RespondZip \/ Extract \/ Parse \/ Write \/ Rmtree

-----------------------------------------------------------------------------
(* "Run All": the cells top to bottom; an exception ends the run.          *)

Next == RunAll \/ Prep \/ Fetch

Spec == Init /\ [][Next]_vars

-----------------------------------------------------------------------------
(* Workspace preparation on its own, run up to MaxPrepRuns times in        *)
(* succession on the same date.                                            *)

\* The preparation cell is run, for the first time or again.
StartPrep ==
    /\ status = "idle"
    /\ ran \subseteq {0}
    /\ prepRuns < MaxPrepRuns
    /\ StartCell(0)

NextPrep == StartPrep \/ Prep

SpecPrep == Init /\ [][NextPrep]_vars

-----------------------------------------------------------------------------
(* Properties of workspace preparation.                                    *)

Workspace == DownloadFolder(clock)

\* A run of workspace preparation has ended, by completing or by an
\* exception, and the filesystem did not deny it a call.
PrepEnded ==
    /\ step = 0
    /\ stage # "none"
    /\ status # "running"
    /\ error # "OSError"

EmptyDirectory(p) == is_dir(fs, p) /\ \A q \in DOMAIN fs : IsPrefix(p, q) => q = p

\* C1: whatever occupied the dated workspace path before (nothing, a file,
\* an empty or populated directory, any other kind of entry), every run of
\* workspace preparation, the first and the one after it, completes and
\* leaves the path an empty directory.
C1_PrepAnyOccupant ==
    PrepEnded => status = "idle" /\ EmptyDirectory(Workspace)

\* C7: on a path that does not exist, workspace preparation creates an
\* empty directory; on a path that is a regular file, it removes the file
\* and creates a directory in its place.
C7_PrepScenarios ==
    (PrepEnded /\ prior \in {"absent", "file"}) =>
        /\ status = "idle"
        /\ stage = "end"
        /\ EmptyDirectory(Workspace)

\* Preparation has completed on a path that was a regular file.
C7_Witness ==
    /\ prior = "file"
    /\ step = 0 /\ stage = "end" /\ status = "idle"
    /\ EmptyDirectory(Workspace)

-----------------------------------------------------------------------------
(* Properties of a "Run All" run.                                          *)

Scratch(s) == SubFolder(Workspace, s)
Cache(s) == Join(Workspace, CacheName(s))

\* Workspace preparation has completed in this run.
Prepared == prepRuns >= 1

\* The statement of step s that wrote its cache file has completed.
Cached(s) ==
    /\ Prepared
    /\ \/ s < step
       \/ s = step /\ stage \in {"rmtree", "end"}

\* Step s has ended: it completed, or the run aborted in it.
Ended(s) ==
    /\ Prepared
    /\ \/ s < step
       \/ s = step /\ status \in {"idle", "aborted"}

\* C2: once an archive step has ended, whether its parse succeeded or
\* failed and whether or not its cache write failed, its scratch
\* subdirectory does not exist.
C2_ScratchRemoved ==
    \A s \in ArchiveSteps : Ended(s) => ~exists(fs, Scratch(s))

\* The current archive step is past its gpd.read_file statement.
ParseAttempted ==
    /\ step \in ArchiveSteps
    /\ \/ stage \in {"write", "rmtree", "end"}
       \/ stage = "parse" /\ status = "aborted"

\* C5: when the extracted archive has no .shp file at the expected path,
\* the archive step fails at the parse with an error, holds no feature
\* collection and writes no cache file for its source.
C5_MissingShpFails ==
    (ParseAttempted /\ answered[step] = "lacking") =>
        /\ status = "aborted"
        /\ stage = "parse"
        /\ error = "DriverError"
        /\ df = NoData
        /\ ~exists(fs, Cache(step))

\* The world-boundaries step has failed on an archive without its .shp.
C5_Witness ==
    /\ step = 8
    /\ answered[8] = "lacking"
    /\ status = "aborted" /\ stage = "parse" /\ error = "DriverError"
    /\ is_file(fs, Join(Scratch(8), DbfName(8)))
    /\ ~exists(fs, Join(Scratch(8), ShpName(8)))

\* The fetch or the CSV parse of the current tabular step has failed.
TabularFetchFailed ==
    /\ step \in TabularSteps
    /\ answered[step] \in {"URLError", "HTTPError", "ParserError"}

\* C8: in one run each URL is requested at most once; when the fetch or the
\* CSV parse of a tabular step fails, the run halts at that step, the
\* request is not repeated and no cache file is written for that source.
C8_NoRetryNoPartial ==
    /\ \A s \in Steps : Len(requested[s]) <= 1
    /\ \A s, t \in Steps :
         (s # t /\ requested[s] # <<>> /\ requested[t] # <<>>) =>
             requested[s][1] # requested[t][1]
    /\ TabularFetchFailed =>
         /\ status = "aborted"
         /\ stage = "await"
         /\ error = answered[step]
         /\ requested[step] = <<PublishedURL(step)>>
         /\ ~exists(fs, Cache(step))
         /\ ~ENABLED Next

\* The JHU US deaths step, the second of its cell, has failed on a
\* malformed CSV after three steps completed.
C8_Witness ==
    /\ step = 4
    /\ answered[4] = "ParserError"
    /\ status = "aborted"
    /\ Len(requested[4]) = 1
    /\ is_file(fs, Cache(3))

\* Step s has completed.
Completed(s) ==
    /\ Prepared
    /\ \/ s < step
       \/ s = step /\ status = "idle" /\ stage = "end"

\* C4 as stated: in every state of a run the cache files present in the
\* workspace are exactly those of the steps that completed; none of the
\* failing step or of a later step is present.
C4_ExactlyCompleted ==
    Prepared => \A s \in Steps : exists(fs, Cache(s)) <=> Completed(s)

\* The cache file of step s holds the complete pickle of its source's data.
CacheIntact(s) ==
    /\ is_file(fs, Cache(s))
    /\ fs[Cache(s)].data = Pickle(SourceData(s, remoteVer))

\* C4 (amended): once workspace preparation has completed, in every state
\* of the run the cache file of every step whose cache write completed is
\* present and intact, no cache file of a later step is present, the
\* current step's cache file is absent up to its cache write, and when the
\* cache write itself fails the file is absent or truncated; no failure is
\* caught, so an aborted run takes no further step.
C4_PartialPopulation ==
    /\ Prepared =>
         \A s \in Steps :
            /\ Cached(s) => CacheIntact(s)
            /\ s > step => ~exists(fs, Cache(s))
            /\ (s = step /\ stage \in {"assign", "request", "await", "extract", "parse"})
                  => ~exists(fs, Cache(s))
            /\ (s = step /\ stage = "write") =>
                  \/ ~exists(fs, Cache(s))
                  \/ /\ status = "aborted"
                     /\ error = "OSError"
                     /\ is_file(fs, Cache(s))
                     /\ fs[Cache(s)].data \in Truncations(Pickle(df))
    /\ status = "aborted" => ~ENABLED Next

\* The state-boundaries step has failed in its cache write and left a
\* truncated file beside the eight intact ones.
C4_Witness ==
    /\ step = 9 /\ stage = "write" /\ status = "aborted"
    /\ is_file(fs, Cache(9))
    /\ fs[Cache(9)].data # <<>>
    /\ \A s \in 1..8 : CacheIntact(s)
    /\ ~exists(fs, Cache(10))

\* The run has executed every cell to its end.
Done == status = "idle" /\ ran = Cells /\ step = 10 /\ stage = "end"

\* C6: after a fully successful run the workspace holds exactly the ten
\* cache files (seven tabular, three geographic) and nothing else; the ten
\* names are pairwise distinct and distinct from the three scratch names,
\* and each cache file holds what its own step wrote.
C6_Layout ==
    /\ Cardinality({CacheName(s) : s \in TabularSteps}) = 7
    /\ Cardinality({CacheName(s) : s \in ArchiveSteps}) = 3
    /\ Cardinality(CacheNames) = 10
    /\ Cardinality(ScratchNames) = 3
    /\ CacheNames \cap ScratchNames = {}
    /\ \A s \in Steps :
         Cached(s) => /\ Cache(s) \in DOMAIN written
                      /\ written[Cache(s)] = SourceData(s, remoteVer)
    /\ Done =>
         /\ {p \in DOMAIN fs : IsPrefix(Workspace, p)} =
               {Workspace} \cup {Cache(s) : s \in Steps}
         /\ is_dir(fs, Workspace)
         /\ \A s \in Steps : is_file(fs, Cache(s))
         /\ Cardinality(Children(fs, Workspace)) = 10

\* A run has completed over a workspace path that held a file.
C6_Witness ==
    /\ Done
    /\ prior = "file"
    /\ Children(fs, Workspace) = CacheNames

\* C9: the run creates, overwrites and deletes only the workspace path of
\* today's date and what is beneath it; the dated directory of another
\* date and every other entry stay as they were.
C9_Frame ==
    \A p \in DOMAIN fs \cup DOMAIN Elsewhere(clock) :
        ~IsPrefix(Workspace, p) =>
            /\ p \in DOMAIN fs
            /\ p \in DOMAIN Elsewhere(clock)
            /\ fs[p] = Elsewhere(clock)[p]

\* A run has completed that emptied a populated workspace and removed its
\* three scratch subdirectories.
C9_Witness ==
    /\ Done
    /\ prior = "scratch_dir"
    /\ \A s \in ArchiveSteps : ~exists(fs, Scratch(s))
    /\ <<"shapes_global">> \in DOMAIN fs

-----------------------------------------------------------------------------
(* The fetch cells run one at a time in any order, each at most once, on   *)
(* a prepared workspace, with the network and the filesystem sound.  A     *)
(* cell that raised does not keep the user from running another.           *)

InitPrepared ==
    /\ clock \in Dates
    /\ remoteVer \in 1..MaxVer
    /\ faults = FALSE
    /\ prior = "empty_dir"
    /\ fs = PreparedFs(clock)
    /\ download_folder = DownloadFolder(clock)
    /\ ran = {0}
    /\ met = {0}
    /\ prepRuns = 1
    /\ InitKernel

Pick ==
    /\ status \in {"idle", "aborted"}
    /\ \E c \in FetchCells \ ran : StartCell(c)

NextReorder == Pick \/ Fetch

SpecReorder == InitPrepared /\ [][NextReorder]_vars

\* Cell c has been run and is no longer executing.
Finished(c) == c \in ran /\ ~(status = "running" /\ CellOf(step) = c)

\* Step s made the request and left the cache file that it makes and
\* leaves when the notebook is run top to bottom.
AsNotebook(s) ==
    /\ requested[s] = <<PublishedURL(s)>>
    /\ CacheIntact(s)

-----------------------------------------------------------------------------
(* The cache writer and the reload, applied to datasets of both classes    *)
(* in any sequence, on two cache files of a prepared workspace.            *)

\* The datasets written: what the sources serve, a table without rows and
\* a table with a short row.
Datasets ==
    {SourceData(s, v) : s \in {1, 7, 8, 10}, v \in 1..MaxVer} \cup
    {read_csv(<< <<"only">> >>), read_csv(<< <<"x", "y">>, <<"1">> >>)}

CacheSteps == {1, 8}

\* d.to_pickle(download_folder / '<name>.pkl')
CacheWrite ==
    /\ \E s \in CacheSteps, d \in Datasets :
         /\ fs' = to_pickle(fs, CachePath(download_folder, s), d)
         /\ written' = (CachePath(download_folder, s) :> d) @@ written
    /\ UNCHANGED <<clock, remoteVer, faults, env, download_folder, sub_folder, zip,
                   df, status, step, stage, error, ran, requested, prior, prepRuns,
                   geoOrder, loaded, answered, met>>

\* pd.read_pickle(download_folder / '<name>.pkl')
CacheReload ==
    /\ \E s \in CacheSteps :
         LET p == CachePath(download_folder, s)
         IN /\ is_file(fs, p)
            /\ Unpicklable(fs[p].data)
            /\ loaded' = [df |-> read_pickle(fs, p), latest |-> written[p]]
    /\ UNCHANGED <<clock, remoteVer, faults, fs, env, download_folder, sub_folder,
                   zip, df, status, step, stage, error, ran, requested, written,
                   prior, prepRuns, geoOrder, answered, met>>

NextCache == CacheWrite \/ CacheReload

SpecCache == InitPrepared /\ [][NextCache]_vars

-----------------------------------------------------------------------------
(* Ordering of events in a run.                                            *)

\* The statements of an archive step, in the order the cell has them.
ArchiveOrder ==
    <<"assign", "request", "await", "extract", "parse", "write", "rmtree", "end">>

Follows(a, b) ==
    \E k \in 1..(Len(ArchiveOrder) - 1) : ArchiveOrder[k] = a /\ ArchiveOrder[k + 1] = b

ScratchPresent == {s \in ArchiveSteps : exists(fs, Scratch(s))}

\* What every state of a run shows of the order of its events.
OrderInState ==
    /\ prepRuns <= 1
    /\ \A s \in Steps :
         requested[s] # <<>> =>
           /\ Prepared
           /\ s <= step
           /\ \A t \in Steps : t < s => CacheIntact(t)
           /\ \A t \in ArchiveSteps : t < s => ~exists(fs, Scratch(t))
    /\ \A s \in Steps :
         (Cache(s) \in DOMAIN written /\ Prepared) => requested[s] # <<>>
    /\ (step \in ArchiveSteps /\ stage \in {"parse", "write", "rmtree"}) =>
         /\ answered[step] \in {"ok", "lacking"}
         /\ is_dir(fs, Scratch(step))
    /\ (step \in ArchiveSteps /\ status = "running" /\ stage = "write") =>
         df.kind = "GeoDataFrame"
    /\ (step \in ArchiveSteps /\ stage \in {"rmtree", "end"}) => CacheIntact(step)
    /\ (step \in ArchiveSteps /\ stage = "end") => ~exists(fs, Scratch(step))
    /\ Cardinality(ScratchPresent) <= 1

\* What every step of a run shows of it.
OrderInStep ==
    /\ prepRuns' # prepRuns => \A s \in Steps : requested[s] = <<>>
    /\ step' # step =>
         /\ step' = step + 1
         /\ \A s \in Steps :
              s = step => CacheIntact(s)' /\ stage \in {"write", "rmtree", "end"}
    /\ (step \in ArchiveSteps /\ step' = step /\ stage' # stage) => Follows(stage, stage')
    /\ \A s \in ArchiveSteps :
         (Prepared /\ exists(fs, Scratch(s)) /\ ~exists(fs', Scratch(s))) =>
           /\ s = step /\ At("rmtree")
           /\ CacheIntact(s) /\ CacheIntact(s)'

\* C11: the workspace is prepared once, before any request; a step's
\* request is sent only after every earlier step's cache file is written
\* (and its scratch subdirectory gone); an archive step goes through
\* request, extraction, parsing, cache write and scratch deletion in that
\* order, so its scratch subdirectory is deleted only after its cache file
\* is written, and at no moment is there more than one scratch subdirectory.
C11_Ordering == []OrderInState /\ [][OrderInStep]_vars

\* The county step is about to delete its scratch subdirectory: its cache
\* file is written, as are the nine before it, and the scratch
\* subdirectories of the two archive steps before it are gone.
C11_Witness ==
    /\ At("rmtree") /\ step = 10
    /\ \A s \in Steps : CacheIntact(s)
    /\ ScratchPresent = {10}

-----------------------------------------------------------------------------
(* Termination of a run.                                                   *)

\* The kernel is inside pd.read_csv(url) or urlopen(url).read(): neither is
\* given a timeout, so only the remote end's answer (or the transport's
\* failure) ends the call.
Awaiting == At("await")

\* The steps the kernel takes by itself: under "Run All" the next statement
\* runs as soon as the one before it has returned.  The answer to a request
\* is not among them.
Kernel == RunAll \/ Prep \/ Assign \/ Request \/ Extract \/ Parse \/ Write \/ Rmtree

\* A run in which the kernel never idles before a statement it can run, and
\* in which a request may stay without answer.
SpecLive == Init /\ [][Next]_vars /\ WF_vars(Kernel)

\* The run is over: completed with all ten cache files, or aborted at its
\* first failing step with no later step begun.
RunEnded ==
    \/ Done /\ \A s \in Steps : CacheIntact(s)
    \/ /\ status = "aborted" /\ error # "none"
       /\ \A t \in Steps : t < step => CacheIntact(t)
       /\ \A t \in Steps : t > step => requested[t] = <<>> /\ answered[t] = "none"

\* A request has been sent and no answer has come.
Unanswered(s) == requested[s] # <<>> /\ answered[s] = "none"

\* While a request is unanswered the run is blocked in that step: the
\* kernel has no step of its own to take and no later step has begun.
BlockedWhileUnanswered ==
    \A s \in Steps :
      Unanswered(s) =>
        /\ Awaiting /\ step = s
        /\ ~ENABLED Kernel
        /\ \A t \in Steps : t > s => requested[t] = <<>>

\* C12: if no request stays unanswered for ever the run eventually ends,
\* completed with all ten cache files or aborted at its first failing step,
\* and stays ended; while a request is unanswered the run is blocked in that
\* step, the only step out of the wait being the answer, so a request that
\* is never answered blocks the run for ever and no later step starts.
C12_Termination ==
    /\ ([]<>~Awaiting) => <>RunEnded
    /\ [](RunEnded => ~ENABLED Next)
    /\ []BlockedWhileUnanswered
    /\ [][Awaiting => (step' = step /\ answered[step] = "none" /\ answered'[step] # "none")]_vars

\* The request for the world boundaries archive has been sent after seven
\* cache files were written, and is unanswered: only the answer can move
\* the run.
C12_Witness ==
    /\ Awaiting /\ step = 8
    /\ Unanswered(8)
    /\ \A t \in TabularSteps : CacheIntact(t)
    /\ ~ENABLED Kernel
    /\ ENABLED RespondZip

====
